---- MODULE Spec2Model ----
(***************************************************************************)
(* Model of main.py: an interactive tool that asks an AI service for a     *)
(* commit message for the staged changes and lets the user accept (Y),     *)
(* remake (R) or quit (Q).                                                 *)
(*                                                                         *)
(* Texts (command output, service output, terminal lines) are sequences of *)
(* one-character strings, so that str.strip() and str.upper() are computed *)
(* and not assumed.  One action is one external call of the program (a     *)
(* subprocess, the AI service, a terminal read) together with all the      *)
(* sequential code that follows it up to the next external call.           *)
(***************************************************************************)
EXTENDS Integers, Sequences, FiniteSets

\* ------------------------------------------------------------------ bounds
\* The user may ask for a remake only while fewer than this many
\* generate_commit_msg calls were made (caps the otherwise unbounded loop).
MaxGenerateCalls == 3
\* Invalid lines accepted by one prompt_user call (caps its while True loop).
MaxInvalidInputs == 2

\* ------------------------------------------------------------- text values
\* The characters str.strip() removes that a TLA+ string can hold.  The
\* control characters without an escape are written as the character itself.
VT   == ""   \* U+000B, vertical tab
FS   == ""   \* U+001C, file separator
GS   == ""   \* U+001D, group separator
RS   == ""   \* U+001E, record separator
US   == ""   \* U+001F, unit separator
NEL  == ""   \* U+0085, next line
NBSP == " "   \* U+00A0, no-break space
OGHAM == " "   \* U+1680, ogham space mark

\* The characters c with c.isspace(), which str.strip() removes from both
\* ends.  Python has 16 more of them (U+2000..U+200A, U+2028, U+2029,
\* U+202F, U+205F, U+3000); the TLA+ lexer rejects each of them inside a
\* string, so no text of the model can contain one.
Whitespace == {" ", "\t", "\n", VT, "\f", "\r", FS, GS, RS, US, NEL, NBSP,
               OGHAM}

LowerLetters == <<"a","b","c","d","e","f","g","h","i","j","k","l","m",
                  "n","o","p","q","r","s","t","u","v","w","x","y","z">>
UpperLetters == <<"A","B","C","D","E","F","G","H","I","J","K","L","M",
                  "N","O","P","Q","R","S","T","U","V","W","X","Y","Z">>

\* str.upper() on one character.
upper_char(c) ==
    IF \E i \in 1..Len(LowerLetters) : LowerLetters[i] = c
    THEN UpperLetters[CHOOSE i \in 1..Len(LowerLetters) : LowerLetters[i] = c]
    ELSE c

\* str.upper()
upper(s) == [i \in 1..Len(s) |-> upper_char(s[i])]

\* str.strip(): drops the leading and the trailing whitespace characters.
strip(s) ==
    LET keep == {i \in 1..Len(s) : s[i] \notin Whitespace}
    IN  IF keep = {} THEN <<>>
        ELSE LET lo == CHOOSE i \in keep : \A j \in keep : i <= j
                 hi == CHOOSE i \in keep : \A j \in keep : j <= i
             IN  SubSeq(s, lo, hi)

\* Value of a local variable that has not been assigned yet.
Unset == <<"<unset>">>

\* ----------------------------------------------- outcomes of external calls
\* stdout of `git diff --cached` when it exits 0.
DiffOutputs == { <<>>, <<"\n">>, <<"+","a","\n">>, <<" ","+","b","\r","\n">>,
                 <<OGHAM>> }
\* stdout of `git branch --show-current` when it exits 0 (empty when detached).
BranchOutputs == { <<"\n">>, <<"m","\n">>, <<"f">>, <<OGHAM,"m">> }
\* response.output_text of a successful service call.
ServiceOutputs == { <<"f","a">>, <<"\n","f","b"," ">>, <<"c"," ","x">>, <<>>,
                    <<NBSP,"\n">>, <<"f","a",OGHAM>> }
\* Lines typed at the prompt.
InputLines == { <<"y">>, <<"Y">>, <<" ","y"," ">>, <<"y","\r">>, <<"y",VT>>,
                <<"y",OGHAM>>, <<OGHAM>>,
                <<"r">>, <<"R","\t">>, <<"q">>, <<"Q">>, <<"\f","q">>,
                <<>>, <<" ">>, <<"x">>, <<"y","e","s">>, <<"y"," ","r">>, <<"n">> }

\* How a subprocess.run(..., check=True) call can end: exit status 0, a
\* non-zero exit status (CalledProcessError), or the executable cannot be
\* started (FileNotFoundError, an OSError).
SubprocessResults == {"ok", "CalledProcessError", "FileNotFoundError"}
\* How client.responses.create can end.
ServiceResults == {"ok", "OpenAIError"}
\* How input() can end: a line, or end of file on stdin.
InputResults == {"line", "EOFError"}
\* How constructing the OpenAI client at import can end (OpenAIError when no
\* API key is configured).
ClientResults == {"ok", "OpenAIError"}

\* ------------------------------------------------------- exception classes
BaseClass ==
    [ GitOperationError  |-> "Exception",
      AIOperationError   |-> "Exception",
      UserAbortError     |-> "Exception",
      OpenAIError        |-> "Exception",
      CalledProcessError |-> "Exception",
      FileNotFoundError  |-> "Exception",
      EOFError           |-> "Exception",
      Exception          |-> "BaseException",
      SystemExit         |-> "BaseException",
      BaseException      |-> "object" ]

\* isinstance(e, cls) for an exception of class exc.
IsInstance(exc, cls) ==
    \/ exc = cls
    \/ /\ exc \in DOMAIN BaseClass
       /\ \/ BaseClass[exc] = cls
          \/ /\ BaseClass[exc] \in DOMAIN BaseClass
             /\ BaseClass[BaseClass[exc]] = cls

VARIABLES
    pc,                 \* next external call: "import", "check", "get_diff",
                        \* "get_branch", "generate", "prompt", "commit", "exited"
    staged_changes,     \* commit_process local
    current_branch,     \* commit_process local
    generated_message,  \* commit_process local
    user_choice,        \* commit_process local
    accepted,           \* commit_process local
    calls,              \* number of invocations of each operation
    bannerCount,        \* banners printed by the current prompt_user call
    invalidInCall,      \* invalid lines read by the current prompt_user call
    lastDisplayed,      \* the message shown in the latest banner
    invalidNotices,     \* "Invalid input" lines printed in the whole run
    lastLine,           \* the raw line most recently read by input()
    decisions,          \* the valid decisions returned by prompt_user, in order
    lastGenerated,      \* what the latest generate_commit_msg call returned
    lastOutputText,     \* response.output_text of the latest successful service call
    generateArgs,       \* the (changes, branch_name) pairs passed to generate_commit_msg
    commitArgs,         \* the messages passed to perform_git_commit, in order
    lastCall,           \* the latest external call and how it ended
    raised,             \* class of the exception that ended the run, or "none"
    handledBy,          \* the except clause that handled it, "uncaught", or "none"
    exits,              \* the process exit status, once there is one: <<>>, <<0>>, <<1>>
    stderrLines,        \* messages written to the error stream
    stdoutEvents        \* notable messages written to standard output

vars == << pc, staged_changes, current_branch, generated_message, user_choice,
           accepted, calls, bannerCount, invalidInCall, lastDisplayed,
           invalidNotices, lastLine, decisions, lastGenerated, lastOutputText,
           generateArgs, commitArgs, lastCall, raised, handledBy, exits,
           stderrLines, stdoutEvents >>

locals   == << staged_changes, current_branch, generated_message, user_choice, accepted >>
promptHistory == << bannerCount, invalidInCall, lastDisplayed, invalidNotices,
                    lastLine, decisions >>
callHistory   == << lastGenerated, lastOutputText, generateArgs, commitArgs >>
outcome  == << raised, handledBy, exits, stderrLines, stdoutEvents >>

Init ==
    /\ pc = "import"
    /\ staged_changes = Unset
    /\ current_branch = Unset
    /\ generated_message = Unset
    /\ user_choice = Unset
    /\ accepted = FALSE
    /\ calls = [ check |-> 0, get_staged_changes |-> 0, get_git_branch |-> 0,
                 generate_commit_msg |-> 0, service |-> 0, prompt_user |-> 0,
                 input |-> 0, perform_git_commit |-> 0 ]
    /\ bannerCount = 0
    /\ invalidInCall = 0
    /\ lastDisplayed = Unset
    /\ invalidNotices = 0
    /\ lastLine = Unset
    /\ decisions = <<>>
    /\ lastGenerated = Unset
    /\ lastOutputText = Unset
    /\ generateArgs = {}
    /\ commitArgs = <<>>
    /\ lastCall = [op |-> "none", result |-> "none"]
    /\ raised = "none"
    /\ handledBy = "none"
    /\ exits = <<>>
    /\ stderrLines = <<>>
    /\ stdoutEvents = <<>>

\* ------------------------------------------------------------ top level
\* Variant of top_level_except with the catch-all clause written first.
top_level_except_catch_all_first(exc) ==
    IF IsInstance(exc, "Exception") THEN "Exception"
    ELSE IF IsInstance(exc, "GitOperationError") THEN "GitOperationError"
    ELSE IF IsInstance(exc, "AIOperationError") THEN "AIOperationError"
    ELSE IF IsInstance(exc, "UserAbortError") THEN "UserAbortError"
    ELSE "uncaught"

\* The except clause of the try statement around commit_process() that
\* handles an exception of class exc; clauses are tried in source order.
top_level_except(exc) ==
    IF IsInstance(exc, "GitOperationError") THEN "GitOperationError"
    ELSE IF IsInstance(exc, "AIOperationError") THEN "AIOperationError"
    ELSE IF IsInstance(exc, "UserAbortError") THEN "UserAbortError"
    ELSE IF IsInstance(exc, "Exception") THEN "Exception"
    ELSE "uncaught"

\* Variant of clause_exit_status in which every clause calls sys.exit(0).
clause_exit_status_zero(clause) == 0

\* The status each except clause passes to sys.exit.
clause_exit_status(clause) ==
    IF clause = "UserAbortError" THEN 0 ELSE 1

\* The stream each except clause prints to.
clause_stream(clause) ==
    IF clause = "UserAbortError" THEN "stdout" ELSE "stderr"

\* Variant of RaiseInMain in which the failure is noted and the failed
\* operation is tried again instead of ending the run.
RaiseInMain_retries(exc) ==
    /\ pc' = pc
    /\ raised' = exc
    /\ UNCHANGED << handledBy, exits, stderrLines, stdoutEvents >>

\* The end of a run in which an exception of class exc propagates out of
\* commit_process() into the try statement around it.
RaiseInMain(exc) ==
    LET clause == top_level_except(exc)
    IN  /\ pc' = "exited"
        /\ raised' = exc
        /\ handledBy' = clause
        /\ exits' = << clause_exit_status(clause) >>
        /\ stderrLines' = IF clause_stream(clause) = "stderr"
                          THEN Append(stderrLines, clause) ELSE stderrLines
        /\ stdoutEvents' = IF clause_stream(clause) = "stdout"
                           THEN Append(stdoutEvents, "Aborting.") ELSE stdoutEvents

\* The end of a run by an exception no except clause handles: the
\* interpreter prints the traceback to the error stream and exits with 1.
RaiseUncaught(exc) ==
    /\ pc' = "exited"
    /\ raised' = exc
    /\ handledBy' = "uncaught"
    /\ exits' = << 1 >>
    /\ stderrLines' = Append(stderrLines, "Traceback")
    /\ stdoutEvents' = stdoutEvents

\* Module level: load_dotenv() and the construction of the OpenAI client.
module_import ==
    /\ pc = "import"
    /\ \E result \in ClientResults :
          /\ lastCall' = [op |-> "OpenAI", result |-> result]
          /\ IF result = "ok"
             THEN /\ pc' = "check"
                  /\ UNCHANGED outcome
             ELSE RaiseUncaught(result)
    /\ UNCHANGED << locals, calls, promptHistory, callHistory >>

\* The except clause of the try statement around the work-tree check.
check_except(result) ==
    IF IsInstance(result, "CalledProcessError") THEN "CalledProcessError" ELSE "uncaught"

\* Variant of after_not_in_repository without the sys.exit(1): the program
\* prints the diagnostic and goes on to commit_process().
after_not_in_repository_continues == "get_diff"

\* Where the except clause of the work-tree check leaves the program:
\* sys.exit(1) ends it.
after_not_in_repository == "exited"

\* `git rev-parse --is-inside-work-tree`, the first statement of __main__.
check_work_tree ==
    /\ pc = "check"
    /\ calls' = [calls EXCEPT !.check = @ + 1]
    /\ \E result \in SubprocessResults :
          /\ lastCall' = [op |-> "check", result |-> result]
          /\ IF result = "ok"
             THEN /\ pc' = "get_diff"
                  /\ UNCHANGED outcome
             ELSE IF check_except(result) = "CalledProcessError"
             THEN /\ pc' = after_not_in_repository
                  /\ raised' = result
                  /\ handledBy' = "CalledProcessError"
                  /\ exits' = IF after_not_in_repository = "exited" THEN << 1 >> ELSE exits
                  /\ stderrLines' = Append(stderrLines, "Not in a git repository")
                  /\ stdoutEvents' = stdoutEvents
             ELSE RaiseUncaught(result)
    /\ UNCHANGED << locals, promptHistory, callHistory >>

\* ------------------------------------------------------ repository queries
\* The exception get_staged_changes raises when its subprocess ends with result.
get_staged_changes_raises(result) ==
    IF IsInstance(result, "CalledProcessError") THEN "GitOperationError" ELSE result

\* staged_changes = get_staged_changes()
get_staged_changes ==
    /\ pc = "get_diff"
    /\ calls' = [calls EXCEPT !.get_staged_changes = @ + 1]
    /\ \E result \in SubprocessResults :
          /\ lastCall' = [op |-> "get_staged_changes", result |-> result]
          /\ IF result = "ok"
             THEN /\ \E stdout \in DiffOutputs : staged_changes' = strip(stdout)
                  /\ pc' = "get_branch"
                  /\ UNCHANGED outcome
             ELSE /\ RaiseInMain(get_staged_changes_raises(result))
                  /\ UNCHANGED staged_changes
    /\ UNCHANGED << current_branch, generated_message, user_choice, accepted,
                    promptHistory, callHistory >>

\* Variant of get_git_branch_raises without the try/except.
get_git_branch_raises_unwrapped(result) == result

\* The exception get_git_branch raises when its subprocess ends with result.
get_git_branch_raises(result) ==
    IF IsInstance(result, "CalledProcessError") THEN "GitOperationError" ELSE result

\* current_branch = get_git_branch()
get_git_branch ==
    /\ pc = "get_branch"
    /\ calls' = [calls EXCEPT !.get_git_branch = @ + 1]
    /\ \E result \in SubprocessResults :
          /\ lastCall' = [op |-> "get_git_branch", result |-> result]
          /\ IF result = "ok"
             THEN /\ \E stdout \in BranchOutputs : current_branch' = strip(stdout)
                  /\ pc' = "generate"
                  /\ UNCHANGED outcome
             ELSE /\ RaiseInMain(get_git_branch_raises(result))
                  /\ UNCHANGED current_branch
    /\ UNCHANGED << staged_changes, generated_message, user_choice, accepted,
                    promptHistory, callHistory >>

\* --------------------------------------------------------------- generator
\* Variant of nothing_staged without the guard.
nothing_staged_never(changes) == FALSE

\* `if not changes`: the guard in front of the service call.
nothing_staged(changes) == changes = <<>>

\* The exception generate_commit_msg raises when the service call ends with result.
generate_commit_msg_raises(result) ==
    IF IsInstance(result, "OpenAIError") THEN "OpenAIError" ELSE result

\* Variant of assign_generated_message that keeps the first message (the
\* remake's result is dropped).
assign_generated_message_keep_first(previous, returned) ==
    IF previous = Unset THEN returned ELSE previous

\* The value the loop keeps in generated_message after a generate call
\* returned `returned` while it held `previous`.
assign_generated_message(previous, returned) == returned

\* One pass through the head of the while loop of commit_process:
\* generated_message = generate_commit_msg(staged_changes, current_branch)
generate_commit_msg ==
    /\ pc = "generate"
    /\ generateArgs' = generateArgs \cup { << staged_changes, current_branch >> }
    /\ IF nothing_staged(staged_changes)
       THEN /\ calls' = [calls EXCEPT !.generate_commit_msg = @ + 1]
            /\ RaiseInMain("AIOperationError")
            /\ UNCHANGED << generated_message, lastGenerated, lastOutputText,
                            bannerCount, invalidInCall, lastCall >>
       ELSE /\ calls' = [calls EXCEPT !.generate_commit_msg = @ + 1, !.service = @ + 1]
            /\ \E result \in ServiceResults :
                  /\ lastCall' = [op |-> "service", result |-> result]
                  /\ IF result = "ok"
                     THEN /\ \E output_text \in ServiceOutputs :
                               /\ lastOutputText' = output_text
                               /\ lastGenerated' = strip(output_text)
                               /\ generated_message' =
                                    assign_generated_message(generated_message,
                                                             strip(output_text))
                          /\ pc' = "prompt"
                          /\ bannerCount' = 0
                          /\ invalidInCall' = 0
                          /\ UNCHANGED outcome
                     ELSE /\ RaiseInMain(generate_commit_msg_raises(result))
                          /\ UNCHANGED << generated_message, lastGenerated,
                                          lastOutputText, bannerCount, invalidInCall >>
    /\ UNCHANGED << staged_changes, current_branch, user_choice, accepted,
                    lastDisplayed, invalidNotices, lastLine, decisions, commitArgs >>

\* ---------------------------------------------------------- interaction
\* Variant of is_valid_choice that returns whatever was typed.
is_valid_choice_any(user_input) == TRUE

\* `user_input in ("Y", "R", "Q")`
is_valid_choice(user_input) == user_input \in { <<"Y">>, <<"R">>, <<"Q">> }

\* Variant of normalize_input without the strip().
normalize_input_no_strip(line) == upper(line)

\* What input(...).strip().upper() makes of a typed line.
normalize_input(line) == upper(strip(line))

\* Variant of on_choice in which a remake starts commit_process over, so the
\* diff and the branch are read again.
on_choice_refetch(choice) ==
    IF choice = <<"Y">> THEN "commit"
    ELSE IF choice = <<"Q">> THEN "abort"
    ELSE "get_diff"

\* The branch of the if/elif in commit_process taken for a choice.
on_choice(choice) ==
    IF choice = <<"Y">> THEN "commit"
    ELSE IF choice = <<"Q">> THEN "abort"
    ELSE "generate"

\* Variant of after_invalid_input that leaves prompt_user, so the loop of
\* commit_process generates again.
after_invalid_input_generates == "generate"

\* Variant of after_invalid_input in which a line that is not a valid
\* choice counts as acceptance.
after_invalid_input_commits == "commit"

\* Where prompt_user goes after a line that is not a valid choice.
after_invalid_input == "prompt"

\* Variant of banners_printed with the banner printed in front of the loop.
banners_printed_on_entry_only(iteration) == IF iteration = 0 THEN 1 ELSE 0

\* Banners (header, separators, message) printed by the iteration of the
\* while True loop of prompt_user that follows `iteration` invalid lines:
\* the prints are inside the loop.
banners_printed(iteration) == 1

\* One iteration of the while True loop of prompt_user in which input()
\* ends with result and, when it returns, returns line: the banner, the
\* read and its classification; for a valid choice also the if/elif of
\* commit_process that follows the return.
prompt_user_iteration(result, line) ==
    /\ bannerCount' = bannerCount + banners_printed(invalidInCall)
    /\ lastDisplayed' = IF banners_printed(invalidInCall) > 0
                        THEN generated_message ELSE lastDisplayed
    /\ calls' = [calls EXCEPT !.input = @ + 1,
                              !.prompt_user = IF invalidInCall = 0 THEN @ + 1 ELSE @]
    /\ lastCall' = [op |-> "input", result |-> result]
    /\ IF result = "line"
       THEN /\ lastLine' = line
            /\ IF is_valid_choice(normalize_input(line))
               THEN /\ normalize_input(line) = <<"R">>
                         => calls.generate_commit_msg < MaxGenerateCalls
                    /\ user_choice' = normalize_input(line)
                    /\ decisions' = Append(decisions, normalize_input(line))
                    /\ invalidNotices' = invalidNotices
                    /\ invalidInCall' = invalidInCall
                    /\ IF on_choice(normalize_input(line)) = "abort"
                       THEN RaiseInMain("UserAbortError")
                       ELSE /\ pc' = on_choice(normalize_input(line))
                            /\ UNCHANGED outcome
               ELSE /\ invalidInCall < MaxInvalidInputs
                    /\ invalidNotices' = invalidNotices + 1
                    /\ invalidInCall' = invalidInCall + 1
                    /\ pc' = after_invalid_input
                    /\ UNCHANGED << user_choice, decisions, outcome >>
       ELSE /\ RaiseInMain(result)
            /\ UNCHANGED << user_choice, decisions, invalidNotices, invalidInCall,
                            lastLine >>
    /\ UNCHANGED << staged_changes, current_branch, generated_message, accepted,
                    callHistory >>

\* user_choice = prompt_user(generated_message), one loop iteration at a time.
prompt_user ==
    /\ pc = "prompt"
    /\ \E result \in InputResults :
          IF result = "line"
          THEN \E line \in InputLines : prompt_user_iteration(result, line)
          ELSE prompt_user_iteration(result, lastLine)

\* ------------------------------------------------------------------ commit
\* Variant of perform_git_commit_raises without the try/except.
perform_git_commit_raises_unwrapped(result) == result

\* The exception perform_git_commit raises when its subprocess ends with result.
perform_git_commit_raises(result) ==
    IF IsInstance(result, "CalledProcessError") THEN "GitOperationError" ELSE result

\* Variant of commit_argument that edits the message before committing it.
commit_argument_upper(message) == upper(message)

\* The argument of the perform_git_commit call in commit_process.
commit_argument(message) == message

\* sys.exit(status) inside the try statement: SystemExit passes the except
\* clauses unless one of them matches it.
sys_exit(status) ==
    IF top_level_except("SystemExit") = "uncaught"
    THEN /\ pc' = "exited"
         /\ exits' = << status >>
         /\ UNCHANGED << raised, handledBy, stderrLines >>
    ELSE /\ pc' = "exited"
         /\ raised' = "SystemExit"
         /\ handledBy' = top_level_except("SystemExit")
         /\ exits' = << clause_exit_status(top_level_except("SystemExit")) >>
         /\ stderrLines' = Append(stderrLines, top_level_except("SystemExit"))

\* perform_git_commit(generated_message), then the rest of commit_process
\* and of __main__ when it returns.
perform_git_commit ==
    /\ pc = "commit"
    /\ calls' = [calls EXCEPT !.perform_git_commit = @ + 1]
    /\ commitArgs' = Append(commitArgs, commit_argument(generated_message))
    /\ \E result \in SubprocessResults :
          /\ lastCall' = [op |-> "perform_git_commit", result |-> result]
          /\ IF result = "ok"
             THEN /\ stdoutEvents' = Append(stdoutEvents, "Commit successful!")
                  /\ accepted' = TRUE
                  /\ sys_exit(0)
             ELSE /\ RaiseInMain(perform_git_commit_raises(result))
                  /\ UNCHANGED accepted
    /\ UNCHANGED << staged_changes, current_branch, generated_message, user_choice,
                    promptHistory, lastGenerated, lastOutputText, generateArgs >>

\* ----------------------------------------------------------- specification
Next ==
    \/ module_import
    \/ check_work_tree
    \/ get_staged_changes
    \/ get_git_branch
    \/ generate_commit_msg
    \/ prompt_user
    \/ perform_git_commit

Spec == Init /\ [][Next]_vars

\* The program is sequential and every external call returns: a step that
\* can be taken is taken.
FairSpec == Spec /\ WF_vars(Next)

TypeOK ==
    /\ pc \in {"import", "check", "get_diff", "get_branch", "generate", "prompt",
               "commit", "exited"}
    /\ accepted \in BOOLEAN
    /\ exits \in { <<>>, <<0>>, <<1>> }
    /\ (pc = "exited") <=> (exits # <<>>)
    /\ calls.generate_commit_msg <= MaxGenerateCalls
    /\ bannerCount <= MaxInvalidInputs + 1

\* ------------------------------------------- classification of typed lines
\* Longest typed line of the classification specification.
MaxLineLen == 3

\* The characters of the typed lines.
LineAlphabet == {"y", "Y", "r", "R", "q", "Q", "e", "s", "x",
                 " ", "\t", "\r", VT, NBSP, OGHAM}

\* Every line of at most MaxLineLen characters.
TypedLines == UNION { [1..n -> LineAlphabet] : n \in 0..MaxLineLen }

\* The program at its first prompt (diff, branch and message obtained), with
\* the line the user is about to type in lastLine.
ClassifyInit ==
    /\ pc = "prompt"
    /\ staged_changes = <<"+","a">>
    /\ current_branch = <<"m">>
    /\ generated_message = <<"f","a">>
    /\ user_choice = Unset
    /\ accepted = FALSE
    /\ calls = [ check |-> 1, get_staged_changes |-> 1, get_git_branch |-> 1,
                 generate_commit_msg |-> 1, service |-> 1, prompt_user |-> 0,
                 input |-> 0, perform_git_commit |-> 0 ]
    /\ bannerCount = 0
    /\ invalidInCall = 0
    /\ lastDisplayed = Unset
    /\ invalidNotices = 0
    /\ lastLine \in TypedLines
    /\ decisions = <<>>
    /\ lastGenerated = <<"f","a">>
    /\ lastOutputText = <<"f","a">>
    /\ generateArgs = { << <<"+","a">>, <<"m">> >> }
    /\ commitArgs = <<>>
    /\ lastCall = [op |-> "service", result |-> "ok"]
    /\ raised = "none"
    /\ handledBy = "none"
    /\ exits = <<>>
    /\ stderrLines = <<>>
    /\ stdoutEvents = <<>>

\* The first iteration of prompt_user reads the line.
classify_typed_line ==
    /\ pc = "prompt"
    /\ calls.input = 0
    /\ prompt_user_iteration("line", lastLine)

ClassifySpec == ClassifyInit /\ [][classify_typed_line]_vars

\* ------------------------------------------------------------------ claims
Accept     == <<"Y">>
Regenerate == <<"R">>
Quit       == <<"Q">>

LastDecision == IF decisions = <<>> THEN <<>> ELSE decisions[Len(decisions)]

NumRegenerate == Cardinality({i \in 1..Len(decisions) : decisions[i] = Regenerate})

\* A typed line that is one of y, r, q in either case, with nothing but
\* whitespace around it.
RecognizedLine(line) ==
    \E i \in 1..Len(line) :
        /\ line[i] \in {"y", "Y", "r", "R", "q", "Q"}
        /\ \A j \in 1..Len(line) : j # i => line[j] \in Whitespace

\* C1: when the decisions end in accept, perform_git_commit is invoked
\* exactly once, with the message the latest generate_commit_msg call
\* returned; it is never invoked without an accept.
C1_AcceptCommitsCurrentMessage ==
    /\ Len(commitArgs) = calls.perform_git_commit
    /\ calls.perform_git_commit <= 1
    /\ calls.perform_git_commit = 1 => LastDecision = Accept
    /\ (pc = "exited" /\ LastDecision = Accept)
         => /\ calls.perform_git_commit = 1
            /\ commitArgs = << lastGenerated >>

C1_Witness ==
    /\ pc = "exited"
    /\ decisions = << Regenerate, Regenerate, Accept >>
    /\ invalidNotices > 0
    /\ lastCall = [op |-> "perform_git_commit", result |-> "ok"]
    /\ commitArgs = << <<"f","b">> >>
    /\ exits = << 0 >>

\* C2: when the decisions end in quit, perform_git_commit was never invoked
\* and the process has exited with code 0.
C2_QuitNeverCommits ==
    /\ (\A i \in 1..Len(decisions) : decisions[i] # Accept)
          => calls.perform_git_commit = 0 /\ commitArgs = <<>>
    /\ LastDecision = Quit
          => /\ pc = "exited"
             /\ exits = << 0 >>
             /\ calls.perform_git_commit = 0

C2_Witness ==
    /\ pc = "exited"
    /\ decisions = << Regenerate, Regenerate, Quit >>
    /\ exits = << 0 >>
    /\ calls.perform_git_commit = 0

\* C3: with an empty staged diff (both repository queries having succeeded)
\* the generator fails with AIOperationError without a service call: no
\* service call, no prompt, no commit, exit code 1 through the
\* AIOperationError clause.
C3_EmptyDiffFailsBeforeService ==
    (staged_changes = <<>> /\ current_branch # Unset)
       => /\ pc \in {"generate", "exited"}
          /\ calls.service = 0
          /\ calls.prompt_user = 0
          /\ calls.input = 0
          /\ calls.perform_git_commit = 0
          /\ pc = "exited"
               => /\ calls.generate_commit_msg = 1
                  /\ raised = "AIOperationError"
                  /\ handledBy = "AIOperationError"
                  /\ exits = << 1 >>

C3_Witness ==
    /\ staged_changes = <<>>
    /\ current_branch = <<"m">>
    /\ pc = "exited"
    /\ calls.generate_commit_msg = 1
    /\ raised = "AIOperationError"
    /\ exits = << 1 >>

\* C4: when the AI service call fails, generate_commit_msg fails with
\* AIOperationError, the AIOperationError clause (not the catch-all) handles
\* it, and the service was called once per generate call.
C4_ServiceFailureIsGenerationError ==
    lastCall = [op |-> "service", result |-> "OpenAIError"]
       => /\ pc = "exited"
          /\ raised = "AIOperationError"
          /\ handledBy = "AIOperationError"
          /\ calls.service <= calls.generate_commit_msg

\* C5: the exit code is 0 exactly when the run ended with a successful
\* commit or with a quit decision, and 1 in every other terminated run.
C5_ExitCodeByEnding ==
    pc = "exited"
       => /\ exits \in { << 0 >>, << 1 >> }
          /\ exits = << 0 >>
               <=> \/ lastCall = [op |-> "perform_git_commit", result |-> "ok"]
                   \/ /\ LastDecision = Quit
                      /\ lastCall = [op |-> "input", result |-> "line"]

C5_Witness ==
    /\ pc = "exited"
    /\ exits = << 1 >>
    /\ lastCall = [op |-> "input", result |-> "EOFError"]
    /\ handledBy = "Exception"
    /\ NumRegenerate > 0

\* C6: a line read at the prompt that is not a recognized token leaves the
\* loop prompting with the same message and the same locals, calls neither
\* generate_commit_msg nor perform_git_commit, records no decision, and the
\* next step is another prompt read.
C6_InvalidLineKeepsPrompting ==
    [][ ( /\ pc = "prompt"
          /\ calls'.input = calls.input + 1
          /\ lastCall' = [op |-> "input", result |-> "line"]
          /\ ~RecognizedLine(lastLine') )
        => /\ pc' = "prompt"
           /\ UNCHANGED locals
           /\ UNCHANGED << decisions, callHistory, outcome >>
           /\ calls'.generate_commit_msg = calls.generate_commit_msg
           /\ calls'.service = calls.service
           /\ calls'.perform_git_commit = calls.perform_git_commit ]_vars

C6_Witness ==
    /\ pc = "prompt"
    /\ lastLine = <<"y","e","s">>
    /\ invalidNotices = 2
    /\ bannerCount = 2
    /\ calls.generate_commit_msg = 1

\* C7: the staged diff and the branch are each queried at most once, exactly
\* once as soon as the generate/prompt loop is reached, and every
\* generate_commit_msg call gets the pair that single fetch returned.
C7_DiffAndBranchFetchedOnce ==
    /\ calls.get_staged_changes <= 1
    /\ calls.get_git_branch <= 1
    /\ (pc \in {"generate", "prompt", "commit"} \/ calls.generate_commit_msg > 0)
          => /\ calls.get_staged_changes = 1
             /\ calls.get_git_branch = 1
    /\ generateArgs \subseteq { << staged_changes, current_branch >> }

C7_Witness ==
    /\ calls.generate_commit_msg = 3
    /\ NumRegenerate = 2
    /\ generateArgs = { << <<"+","b">>, <<"m">> >> }
    /\ calls.get_staged_changes = 1
    /\ calls.get_git_branch = 1

\* C8: once the loop has generated, the number of generate_commit_msg calls
\* is 1 plus the number of regenerate decisions; decisions R, R, Q give 3
\* generator calls, no commit and exit code 0.
C8_GenerateCallsCountRegenerates ==
    /\ (pc \in {"prompt", "commit"} \/ (pc = "exited" /\ calls.generate_commit_msg > 0))
          => calls.generate_commit_msg = 1 + NumRegenerate
    /\ pc = "generate" => calls.generate_commit_msg = NumRegenerate
    /\ decisions = << Regenerate, Regenerate, Quit >>
          => /\ calls.generate_commit_msg = 3
             /\ calls.perform_git_commit = 0
             /\ exits = << 0 >>

C8_Witness ==
    /\ decisions = << Regenerate, Regenerate, Quit >>
    /\ calls.generate_commit_msg = 3
    /\ invalidNotices >= 2
    /\ pc = "exited"

\* C9: when the work-tree check exits non-zero the process exits with code
\* 1 and the diff query, the branch query, the generator, the prompt and
\* the commit are never invoked.
C9_NotARepositoryExitsFirst ==
    lastCall = [op |-> "check", result |-> "CalledProcessError"]
       => /\ pc = "exited"
          /\ exits = << 1 >>
          /\ calls.get_staged_changes = 0
          /\ calls.get_git_branch = 0
          /\ calls.generate_commit_msg = 0
          /\ calls.service = 0
          /\ calls.prompt_user = 0
          /\ calls.input = 0
          /\ calls.perform_git_commit = 0

C9_Witness ==
    /\ lastCall = [op |-> "check", result |-> "CalledProcessError"]
    /\ pc = "exited"
    /\ exits = << 1 >>
    /\ stderrLines = << "Not in a git repository" >>

\* C10: when the user accepts and the commit command exits non-zero,
\* perform_git_commit raises GitOperationError, "Commit successful!" is not
\* printed, the loop is left (no prompt, no generation follows) and the
\* process exits with code 1.
C10_CommitFailureIsRepositoryError ==
    lastCall = [op |-> "perform_git_commit", result |-> "CalledProcessError"]
       => /\ LastDecision = Accept
          /\ raised = "GitOperationError"
          /\ handledBy = "GitOperationError"
          /\ \A i \in 1..Len(stdoutEvents) : stdoutEvents[i] # "Commit successful!"
          /\ accepted = FALSE
          /\ pc = "exited"
          /\ exits = << 1 >>

C10_Witness ==
    /\ lastCall = [op |-> "perform_git_commit", result |-> "CalledProcessError"]
    /\ LastDecision = Accept
    /\ raised = "GitOperationError"
    /\ exits = << 1 >>
    /\ calls.perform_git_commit = 1

\* A text with nothing but whitespace in it (the empty text included).
Blank(text) == \A i \in 1..Len(text) : text[i] \in Whitespace

\* C11: an empty or whitespace-only response of the AI service is a
\* generation failure: the run has ended with AIOperationError and exit
\* code 1, the empty message was never shown in a banner and never passed
\* to perform_git_commit.
C11_EmptyResponseIsGenerationError ==
    (lastCall.op \in {"service", "input", "perform_git_commit"} /\ Blank(lastOutputText))
       => /\ pc = "exited"
          /\ raised = "AIOperationError"
          /\ handledBy = "AIOperationError"
          /\ exits = << 1 >>
          /\ lastDisplayed # <<>>
          /\ \A i \in 1..Len(commitArgs) : commitArgs[i] # <<>>

\* The failures the program names: a repository error, a generation error,
\* a user abort, and the work-tree check exiting non-zero.
ExpectedFailure ==
    \/ raised \in {"GitOperationError", "AIOperationError", "UserAbortError"}
    \/ lastCall = [op |-> "check", result |-> "CalledProcessError"]

\* C12: every unexpected failure raised at a step of the run, the work-tree
\* check included, is handled by the catch-all clause of __main__, reported
\* to the error stream, and ends the process with exit code 1; none escapes
\* the top-level handler.
C12_UnexpectedFailureIsCaught ==
    (pc = "exited" /\ raised # "none" /\ ~ExpectedFailure /\ lastCall.op # "OpenAI")
       => /\ handledBy = "Exception"
          /\ exits = << 1 >>
          /\ stderrLines = << "Exception" >>

\* C13 as stated: the banner is displayed exactly once per generated
\* message and not again after an invalid input.
C13_BannerOncePerMessage ==
    /\ bannerCount <= 1
    /\ lastCall.op = "input" => bannerCount = 1

\* C13 as amended: every prompt read is preceded by the banner, so after k
\* invalid lines the current prompt_user call has displayed it k times while
\* it waits to display it again, and k + 1 times once it has read a valid
\* choice (or end of file); the banner always shows the current message.
C13_BannerPerPromptRead ==
    /\ pc = "prompt" => bannerCount = invalidInCall
    /\ (pc # "prompt" /\ lastCall.op \in {"input", "perform_git_commit"})
          => bannerCount = invalidInCall + 1
    /\ bannerCount > 0 => lastDisplayed = generated_message

C13_Witness ==
    /\ pc = "commit"
    /\ invalidInCall = 2
    /\ bannerCount = 3
    /\ lastLine = <<"Y">>
    /\ lastDisplayed = <<"f","a">>

\* An error has been raised, or an external call has failed.
Failed ==
    \/ raised # "none"
    \/ lastCall.result \notin {"none", "ok", "line"}

\* C14: every error is terminal: as soon as a repository error, a
\* generation error or a user abort has been raised (or an external call
\* has failed) the process has exited, and no further external call is made.
C14_ErrorsAreTerminal ==
    /\ [](Failed => pc = "exited" /\ exits # <<>>)
    /\ [][Failed => calls' = calls /\ lastCall' = lastCall]_vars

C14_Witness ==
    /\ pc = "exited"
    /\ raised = "GitOperationError"
    /\ lastCall = [op |-> "get_staged_changes", result |-> "CalledProcessError"]
    /\ calls.get_git_branch = 0
    /\ exits = << 1 >>

\* A typed line that is one of the given letters with nothing but whitespace
\* around it.
RecognizedAs(line, letters) ==
    \E i \in 1..Len(line) :
        /\ line[i] \in letters
        /\ \A j \in 1..Len(line) : j # i => line[j] \in Whitespace

\* A step that read a line at the prompt.
ReadLineStep ==
    /\ pc = "prompt"
    /\ calls'.input = calls.input + 1
    /\ lastCall' = [op |-> "input", result |-> "line"]

\* C15: once the user has entered accept or quit the run terminates; the
\* prompting state is left only by a recognized token (or by input()
\* failing); a regenerate or invalid line neither ends the run nor commits
\* but leads to another generation or prompt read, and a successful
\* generation leads back to the prompt.
C15_TerminatesOnlyOnAcceptOrQuit ==
    /\ (LastDecision \in {Accept, Quit}) ~> (pc = "exited")
    /\ [][ (pc = "prompt" /\ pc' # "prompt")
             => \/ ReadLineStep /\ RecognizedLine(lastLine')
                \/ lastCall' = [op |-> "input", result |-> "EOFError"] ]_vars
    /\ [][ (ReadLineStep /\ ~RecognizedAs(lastLine', {"y", "Y", "q", "Q"}))
             => /\ pc' \in {"prompt", "generate"}
                /\ exits' = <<>>
                /\ calls'.perform_git_commit = calls.perform_git_commit
                /\ commitArgs' = commitArgs ]_vars
    /\ [][ (pc = "generate" /\ lastCall' = [op |-> "service", result |-> "ok"]
                            /\ calls'.service = calls.service + 1)
             => pc' = "prompt" /\ exits' = <<>> ]_vars

C15_Witness ==
    /\ pc = "exited"
    /\ decisions = << Regenerate, Accept >>
    /\ invalidInCall = 1
    /\ invalidNotices = 3
    /\ exits # <<>>

\* C16: the commit message is only ever a generator result: the program is
\* prompting only after a successful generate_commit_msg call whose result
\* is the current message, the message in a banner is the result of the
\* latest generate call, and a message passed to perform_git_commit is the
\* one displayed at the prompt where accept was entered.
C16_MessageIsLatestGeneratorResult ==
    /\ generated_message # Unset => generated_message = lastGenerated
    /\ pc = "prompt"
          => /\ lastGenerated # Unset
             /\ generated_message = lastGenerated
             /\ calls.service > 0
             /\ \/ lastCall = [op |-> "service", result |-> "ok"]
                \/ lastCall = [op |-> "input", result |-> "line"] /\ invalidInCall > 0
    /\ bannerCount > 0 => lastDisplayed = lastGenerated
    /\ calls.prompt_user <= calls.service
    /\ \A i \in 1..Len(commitArgs) :
          /\ commitArgs[i] = lastDisplayed
          /\ LastDecision = Accept

C16_Witness ==
    /\ pc = "exited"
    /\ decisions = << Regenerate, Accept >>
    /\ commitArgs = << <<"c"," ","x">> >>
    /\ lastDisplayed = <<"c"," ","x">>
    /\ lastOutputText = <<"c"," ","x">>

\* C17: a typed line is classified after trimming whitespace and ignoring
\* case: exactly the lines that reduce to Y, R, Q are accept (the commit
\* follows), regenerate (a generation follows) and quit (the run ends with
\* UserAbortError); every other line is invalid: no decision is recorded,
\* "Invalid input" is printed and the prompt is read again.
C17_LineClassification ==
    calls.input = 1
       => /\ RecognizedAs(lastLine, {"y", "Y"})
               <=> (decisions = << Accept >> /\ user_choice = Accept /\ pc = "commit")
          /\ RecognizedAs(lastLine, {"r", "R"})
               <=> (decisions = << Regenerate >> /\ user_choice = Regenerate
                      /\ pc = "generate")
          /\ RecognizedAs(lastLine, {"q", "Q"})
               <=> (decisions = << Quit >> /\ user_choice = Quit /\ pc = "exited"
                      /\ raised = "UserAbortError")
          /\ ~RecognizedLine(lastLine)
               <=> (decisions = <<>> /\ user_choice = Unset /\ pc = "prompt"
                      /\ invalidNotices = 1)

C17_Witness ==
    /\ calls.input = 1
    /\ lastLine = <<OGHAM, "r", "\r">>
    /\ user_choice = Regenerate
    /\ pc = "generate"

\* C18: the external calls come in the order work-tree check, diff query,
\* branch query, generate/prompt loop: each is made only after the one
\* before it succeeded (the branch query also after an empty diff), and a
\* query that exits non-zero ends the run with GitOperationError and exit
\* code 1 with no generator call, no prompt and no commit.
C18_QueriesBeforeLoop ==
    /\ calls.get_staged_changes > 0 => calls.check = 1
    /\ calls.get_git_branch > 0
          => calls.get_staged_changes = 1 /\ staged_changes # Unset
    /\ calls.get_staged_changes = 1 /\ staged_changes = Unset
          => calls.get_git_branch = 0 /\ pc = "exited"
    /\ (staged_changes # Unset /\ pc # "get_branch") => calls.get_git_branch = 1
    /\ calls.generate_commit_msg > 0
          => /\ calls.get_git_branch = 1
             /\ staged_changes # Unset
             /\ current_branch # Unset
    /\ (lastCall.op \in {"get_staged_changes", "get_git_branch"}
          /\ lastCall.result = "CalledProcessError")
          => /\ pc = "exited"
             /\ raised = "GitOperationError"
             /\ handledBy = "GitOperationError"
             /\ exits = << 1 >>
             /\ calls.generate_commit_msg = 0
             /\ calls.service = 0
             /\ calls.prompt_user = 0
             /\ calls.input = 0
             /\ calls.perform_git_commit = 0

C18_Witness ==
    /\ lastCall = [op |-> "get_git_branch", result |-> "CalledProcessError"]
    /\ staged_changes = <<>>
    /\ current_branch = Unset
    /\ raised = "GitOperationError"
    /\ exits = << 1 >>
    /\ calls.generate_commit_msg = 0

====
